---- MODULE Spec2Model ----
(***************************************************************************)
(* Model of the CleverTap source connector: the two-step cursor pagination *)
(* of ProfilesStream / EventsStream (source_clevertap/streams.py) and the  *)
(* connection check of SourceClevertap (source_clevertap/source.py).       *)
(*                                                                         *)
(* A JSON object is a function from key strings to values; an absent key   *)
(* is a key outside the DOMAIN.  Python None is the string "None"; a null  *)
(* nested object is NullObj.                                               *)
(***************************************************************************)
EXTENDS Integers, Sequences, FiniteSets, TLC

VARIABLES
    kind,            \* which stream class the object is: "profiles" | "events"
    initial_cursor,  \* self._initial_cursor
    current_cursor,  \* self._current_cursor
    pc,              \* position of the read_records generator
    attempt,         \* loop variable of `for attempt in range(max_retries)`
    data,            \* local `data`: the last decoded response body
    idx,             \* number of records of `data` already yielded
    emitted,         \* records the caller has received from the generator
    error,           \* exception that left the generator ("None" if none)
    pages,           \* history: record lists of the accepted pages, in order
    issued,          \* history: cursor the remote API handed out last
    nInit,           \* history: initiation calls issued
    nPoll,           \* history: poll calls issued for the present cursor
    nWait,           \* history: time.sleep(retry_delay) calls made for the present cursor
    lastCall,        \* history: the most recent outbound call
    lastResp,        \* history: the response to the most recent outbound call
    config,          \* config mapping handed to check_connection
    today,           \* int(datetime.now().strftime("%Y%m%d"))
    check_result,    \* value returned by check_connection (<<>> before)
    stream,          \* the fields __init__ gave the stream object that is read
    stream_list,     \* names of the streams streams(config) returned (<<>> before)
    reads            \* read_records invocations made on the stream object before this one

vars == <<kind, initial_cursor, current_cursor, pc, attempt, data, idx, emitted,
          error, pages, issued, nInit, nPoll, nWait, lastCall, lastResp, config,
          today, check_result, stream, stream_list, reads>>

checkVars == <<config, today, check_result, stream, stream_list, reads>>

----------------------------------------------------------------------------
(* Bounds of the model *)

\* accepted pages one read is offered before the remote API ends the export
MaxPages == 2
\* dates are the integers 1..MaxDate, standing for YYYYMMDD values
MaxDate == 3

\* read_records invocations on one stream object after the first
MaxReads == 1

(* Program constants *)

max_retries == 10
retry_delay == 5

----------------------------------------------------------------------------
(* Python values *)

None == "None"
EmptyDict == [k \in {} |-> None]
NullObj == [null |-> None]

\* truth value of a string-or-None value: `if cursor`, `if not cursor`
Truthy(v) == v \notin {None, ""}

\* truth value of a nested object: `x or {}`
TruthyObj(o) == o # NullObj /\ DOMAIN o # {}

\* dict.get(k) for a scalar field
Get(d, k) == IF k \in DOMAIN d THEN d[k] ELSE None

\* d[k] = v
SetKey(d, k, v) == [x \in (DOMAIN d) \cup {k} |-> IF x = k THEN v ELSE d[x]]

\* d.pop(k, default), the dict that is left
PopKey(d, k) == [x \in (DOMAIN d) \ {k} |-> d[x]]

\* (d.get(k) or {}) for a nested object field
GetObj(d, k) == IF k \in DOMAIN d /\ TruthyObj(d[k]) THEN d[k] ELSE EmptyDict

----------------------------------------------------------------------------
(* Raw records the remote API may return in a page *)

RecA == [id |-> "a",
         event_props |-> ("CT Session Id" :> "s1"),
         profile |-> [identity |-> "u1", email |-> "e@x.com"]]
RecB == [id |-> "b", profile |-> NullObj]
RecC == [id |-> "c", event_props |-> NullObj]

RawRecords == {RecA, RecB, RecC}

\* the record lists a page may carry: none, one, two in either order, the
\* same record twice
PageLists ==
    {<<>>, <<RecC>>, <<RecA, RecB>>, <<RecB, RecA>>, <<RecB, RecB>>}

\* variant: the profile is read with get and stays in the record
Flatten_keeps_profile(record) ==
    LET event_props == GetObj(record, "event_props")
        r0 == SetKey(record, "session_id", Get(event_props, "CT Session Id"))
        profile == GetObj(r0, "profile")
        r2 == SetKey(r0, "identity", Get(profile, "identity"))
        r3 == SetKey(r2, "name", Get(profile, "name"))
        r4 == SetKey(r3, "email", Get(profile, "email"))
        r5 == SetKey(r4, "phone", Get(profile, "phone"))
        r6 == SetKey(r5, "object_id", Get(profile, "objectId"))
        r7 == SetKey(r6, "all_identities", Get(profile, "all_identities"))
    IN  SetKey(r7, "profile_data", Get(profile, "profileData"))

\* the flattening of one events record (record is changed in place and yielded)
Flatten(record) ==
    LET event_props == GetObj(record, "event_props")
        r0 == SetKey(record, "session_id", Get(event_props, "CT Session Id"))
        profile == GetObj(r0, "profile")
        r1 == PopKey(r0, "profile")
        r2 == SetKey(r1, "identity", Get(profile, "identity"))
        r3 == SetKey(r2, "name", Get(profile, "name"))
        r4 == SetKey(r3, "email", Get(profile, "email"))
        r5 == SetKey(r4, "phone", Get(profile, "phone"))
        r6 == SetKey(r5, "object_id", Get(profile, "objectId"))
        r7 == SetKey(r6, "all_identities", Get(profile, "all_identities"))
    IN  SetKey(r7, "profile_data", Get(profile, "profileData"))

\* what the loop over `records` yields for one raw record
Emit(k, record) == IF k = "events" THEN Flatten(record) ELSE record

\* data.get("records", [])
Records(d) == IF "records" \in DOMAIN d THEN d.records ELSE <<>>

----------------------------------------------------------------------------
(* Responses of the remote API *)

Cursors == {"c1", "c2"}

Transports == {"ok", "status_error", "network_error"}

\* bodies of the initiation response
InitBodies ==
    {[status |-> "success", cursor |-> c] : c \in Cursors \cup {"", None}}
    \cup {[status |-> "success"], [status |-> "fail"], EmptyDict,
          [status |-> "fail", cursor |-> "c1"], [status |-> "error", cursor |-> "c2"]}

InitResponses ==
    {[transport |-> "ok", body |-> b] : b \in InitBodies}
    \cup {[transport |-> t, body |-> EmptyDict] : t \in Transports \ {"ok"}}

\* bodies of a poll response
SuccessBodies ==
    {[status |-> "success", records |-> r, next_cursor |-> c] :
        r \in PageLists, c \in Cursors \cup {""}}
    \cup {[status |-> "success", records |-> r] : r \in PageLists}
    \cup {[status |-> "success"], [status |-> "success", next_cursor |-> "c2"],
          [status |-> "success", code |-> 2, records |-> <<RecC>>]}

ProcessingBodies ==
    {[status |-> "fail", code |-> 2],
     [status |-> "fail", code |-> 2, records |-> <<RecA>>, next_cursor |-> "c2"]}

FailureBodies ==
    {[status |-> "fail", code |-> 1], [status |-> "fail"], EmptyDict,
     [status |-> "error", code |-> 2],
     [status |-> "fail", code |-> 1, records |-> <<RecB>>, next_cursor |-> "c2"]}

PollBodies == SuccessBodies \cup ProcessingBodies \cup FailureBodies

PollResponses ==
    {[transport |-> "ok", body |-> b] : b \in PollBodies}
    \cup {[transport |-> t, body |-> EmptyDict] : t \in Transports \ {"ok"}}

----------------------------------------------------------------------------
(* Exceptions *)

NoError == [kind |-> "None"]
TransportError(t) == [kind |-> "transport", cause |-> t]
ApiError(body) == [kind |-> "api_error_status", body |-> body]
NoCursorError(body) == [kind |-> "no_cursor", body |-> body]
MaxRetriesError(body) == [kind |-> "max_retries", body |-> body]

----------------------------------------------------------------------------
(* _get_initial_cursor: the outcome of the initiation call for a response *)

\* variant: the check `if not cursor` is left out
get_initial_cursor_unchecked(resp) ==
    IF resp.transport # "ok"
    THEN [raised |-> TRUE, error |-> TransportError(resp.transport), value |-> None]
    ELSE IF Get(resp.body, "status") # "success"
    THEN [raised |-> TRUE, error |-> ApiError(resp.body), value |-> None]
    ELSE [raised |-> FALSE, error |-> NoError, value |-> Get(resp.body, "cursor")]

get_initial_cursor(resp) ==
    IF resp.transport # "ok"
    THEN [raised |-> TRUE, error |-> TransportError(resp.transport), value |-> None]
    ELSE IF Get(resp.body, "status") # "success"
    THEN [raised |-> TRUE, error |-> ApiError(resp.body), value |-> None]
    ELSE IF ~Truthy(Get(resp.body, "cursor"))
    THEN [raised |-> TRUE, error |-> NoCursorError(resp.body), value |-> None]
    ELSE [raised |-> FALSE, error |-> NoError, value |-> resp.body.cursor]

(* one pass of the retry loop: what the code does with a poll response *)

IsProcessing(d) == Get(d, "status") = "fail" /\ "code" \in DOMAIN d /\ d.code = 2

\* variant: the budget test is `attempt < max_retries`
poll_outcome_off_by_one(resp, att) ==
    IF resp.transport # "ok" THEN "raise_transport"
    ELSE IF IsProcessing(resp.body)
    THEN (IF att < max_retries THEN "retry" ELSE "raise_max_retries")
    ELSE IF Get(resp.body, "status") # "success" THEN "raise_api"
    ELSE "accept"

\* variant: every body with status "fail" is retried
poll_outcome_retry_any_fail(resp, att) ==
    IF resp.transport # "ok" THEN "raise_transport"
    ELSE IF Get(resp.body, "status") = "fail"
    THEN (IF att < max_retries - 1 THEN "retry" ELSE "raise_max_retries")
    ELSE IF Get(resp.body, "status") # "success" THEN "raise_api"
    ELSE "accept"

poll_outcome(resp, att) ==
    IF resp.transport # "ok" THEN "raise_transport"
    ELSE IF IsProcessing(resp.body)
    THEN (IF att < max_retries - 1 THEN "retry" ELSE "raise_max_retries")
    ELSE IF Get(resp.body, "status") # "success" THEN "raise_api"
    ELSE "accept"

\* variant: a transport failure of a poll is not recorded as an exception
poll_error_swallow_transport(resp, outcome) ==
    CASE outcome = "raise_max_retries" -> MaxRetriesError(resp.body)
      [] outcome = "raise_api" -> ApiError(resp.body)
      [] OTHER -> NoError

\* the exception a raising outcome leaves the generator with
poll_error(resp, outcome) ==
    CASE outcome = "raise_transport" -> TransportError(resp.transport)
      [] outcome = "raise_max_retries" -> MaxRetriesError(resp.body)
      [] outcome = "raise_api" -> ApiError(resp.body)
      [] OTHER -> NoError

\* variant: a record equal to one already yielded is skipped
yield_record_dedup(out, k, record) ==
    IF \E i \in 1..Len(out) : out[i] = Emit(k, record) THEN out ELSE Append(out, Emit(k, record))

\* the caller's view of the output once `yield record` has run for a record
yield_record(out, k, record) == Append(out, Emit(k, record))

\* variant: the continuation cursor is read from the "cursor" field
advance_wrong_field(d) ==
    LET next_cursor == Get(d, "cursor") IN
    IF Truthy(next_cursor)
    THEN [cursor |-> next_cursor, pc |-> "poll"]
    ELSE [cursor |-> None, pc |-> "done"]

\* variant: a page without records ends the pagination
advance_stop_on_empty(d) ==
    LET next_cursor == Get(d, "next_cursor") IN
    IF Truthy(next_cursor) /\ Records(d) # <<>>
    THEN [cursor |-> next_cursor, pc |-> "poll"]
    ELSE [cursor |-> None, pc |-> "done"]

\* variant: the loop goes on when the page carries no continuation cursor
advance_poll_on_absent(d) ==
    LET next_cursor == Get(d, "next_cursor") IN
    IF Truthy(next_cursor)
    THEN [cursor |-> next_cursor, pc |-> "poll"]
    ELSE [cursor |-> None, pc |-> "poll"]

\* the end of one pass of the pagination loop: the cursor the stream keeps and
\* where the generator goes
advance(d) ==
    LET next_cursor == Get(d, "next_cursor") IN
    IF Truthy(next_cursor)
    THEN [cursor |-> next_cursor, pc |-> "poll"]
    ELSE [cursor |-> None, pc |-> "done"]

\* variant: every read_records invocation starts a new export
needs_initiation_always(ic) == TRUE

\* `if not self._initial_cursor:` -- Step 1 runs when no cursor is stored
needs_initiation(ic) == ~Truthy(ic)

\* variant: the cursor is advanced as soon as one record has been yielded
records_exhausted_early(i, d) == i >= 1 \/ i = Len(Records(d))

\* `for record in records:` has run over every record of the page
records_exhausted(i, d) == i = Len(Records(d))

\* variant: the retry loop of a cursor goes on from the count of the one before
first_attempt_carried(att) == att

\* `for attempt in range(max_retries):` binds attempt anew for every cursor,
\* whatever it held at the end of the loop before
first_attempt(att) == 0

\* `while self._current_cursor:` -- where the generator goes for a cursor
while_test(cursor) == IF Truthy(cursor) THEN "poll" ELSE "done"

\* variant: a transport failure of the initiation call is tried again
after_init_retry(r) ==
    IF r.raised
    THEN (IF r.error.kind = "transport" THEN "start" ELSE "failed")
    ELSE IF Truthy(r.value) THEN "poll" ELSE "done"

\* where the generator is after Step 1: an exception of _get_initial_cursor
\* leaves read_records, a cursor enters the pagination loop
after_init(r) == IF r.raised THEN "failed" ELSE while_test(r.value)

\* variant: a remote failure does not leave the retry loop
after_poll_continue(outcome) ==
    CASE outcome = "retry" -> "poll"
      [] outcome = "accept" -> "emit"
      [] outcome = "raise_api" -> "poll"
      [] OTHER -> "failed"

\* variant: an exception of the retry loop clears the stored cursor
cursor_after_poll_cleared(outcome, cursor) ==
    IF outcome \in {"raise_transport", "raise_max_retries", "raise_api"}
    THEN None
    ELSE cursor

\* no branch of the retry loop assigns self._current_cursor: a raise, a retry
\* and a break all leave the stored cursor as it is
cursor_after_poll(outcome, cursor) == cursor

\* where the generator is after one pass of the retry loop
after_poll(outcome) ==
    CASE outcome = "retry" -> "poll"
      [] outcome = "accept" -> "emit"
      [] OTHER -> "failed"

----------------------------------------------------------------------------
(* Outbound calls as the code issues them *)

\* requests.post(url, json=payload, ...) of _get_initial_cursor
init_call(k) == [call |-> "init", method |-> "POST", resource |-> k, cursor |-> None]

\* variant: every poll goes to the events address
poll_call_events_address(k, cursor) ==
    [call |-> "poll", method |-> "GET", resource |-> "events", cursor |-> cursor]

\* requests.get(f"{url}?cursor={self._current_cursor}", ...) of read_records
poll_call(k, cursor) == [call |-> "poll", method |-> "GET", resource |-> k, cursor |-> cursor]

NoCall == [call |-> "None"]
NoResp == [transport |-> "None", body |-> EmptyDict]

----------------------------------------------------------------------------
(* The configuration *)

IntV(n) == [t |-> "int", v |-> n]
StrV(x) == [t |-> "str", s |-> x]

\* the config of the unit tests, dates scaled down to small integers
TestConfig ==
    [account_id |-> "TEST-ACCOUNT-ID", passcode |-> "TEST-PASSCODE", region |-> "in1",
     event_name |-> "Test Event", start_date |-> IntV(1), end_date |-> IntV(2)]

NullV == [t |-> "null"]

\* truth value of a config value: `config.get("end_date") or ...`
TruthyVal(x) ==
    \/ (x.t = "int" /\ x.v # 0)
    \/ (x.t = "str" /\ x.s # "")

\* isinstance(x, int)
IsInt(x) == x.t = "int"

\* config.get("end_date") or int(datetime.now().strftime("%Y%m%d"))
resolve_end_date(cfg, now) ==
    IF "end_date" \in DOMAIN cfg /\ TruthyVal(cfg.end_date) THEN cfg.end_date ELSE IntV(now)

\* the configs handed to the connector: every key may be absent
OptField(k, vals) == {EmptyDict} \cup {k :> x : x \in vals}

Dates == 1..MaxDate

\* the regions of the documentation, an empty one and one that is none of them
Regions == {"", "in1", "us1", "sg1", "eu1", "xx9"}

Configs ==
    {a @@ p @@ sd @@ ed @@ rg @@ en :
        a \in OptField("account_id", {"ACC"}),
        p \in OptField("passcode", {"PASS"}),
        sd \in OptField("start_date", {IntV(d) : d \in Dates} \cup {StrV("20220101")}),
        ed \in OptField("end_date", {IntV(d) : d \in Dates}
                                      \cup {IntV(0), NullV, StrV("20220201")}),
        rg \in OptField("region", Regions),
        en \in OptField("event_name", {"Test Event"})}

\* variant: the events stream reads only start_date with config[...]
init_keys_lenient(k) ==
    IF k = "profiles"
    THEN <<"account_id", "passcode", "event_name", "start_date">>
    ELSE <<"start_date">>

\* the keys __init__ reads with config[...], in the order it reads them
init_keys(k) ==
    IF k = "profiles"
    THEN <<"account_id", "passcode", "event_name", "start_date">>
    ELSE <<"account_id", "passcode", "start_date">>

KeyError(key) == [kind |-> "KeyError", key |-> key]

\* the first of the keys the config lacks
first_absent(keys, cfg) ==
    keys[CHOOSE i \in 1..Len(keys) :
            /\ keys[i] \notin DOMAIN cfg
            /\ \A j \in 1..(i - 1) : keys[j] \in DOMAIN cfg]

\* variant: only the regions of the documentation get a host of their own
base_url_known_regions(k, region) ==
    IF region \in {"in1", "us1", "sg1", "eu1"}
    THEN <<"https://", region, ".api.clevertap.com">>
    ELSE <<"https://api.clevertap.com">>

\* "Build base URL based on region", as each class does it
base_url(k, region) ==
    IF k = "profiles"
    THEN (IF Truthy(region)
          THEN <<"https://", region, ".api.clevertap.com">>
          ELSE <<"https://api.clevertap.com">>)
    ELSE (IF Truthy(region)
          THEN <<"https://", region, ".api.clevertap.com">>
          ELSE <<"https://api.clevertap.com">>)

NoStream == [kind |-> "None"]

\* ProfilesStream(config) / EventsStream(config): a KeyError or the new object
new_stream(k, cfg, now) ==
    IF \E i \in 1..Len(init_keys(k)) : init_keys(k)[i] \notin DOMAIN cfg
    THEN [raised |-> TRUE, error |-> KeyError(first_absent(init_keys(k), cfg)),
          obj |-> NoStream]
    ELSE [raised |-> FALSE, error |-> NoError,
          obj |-> [kind |-> k,
                   account_id |-> Get(cfg, "account_id"),
                   passcode |-> Get(cfg, "passcode"),
                   event_name |-> Get(cfg, "event_name"),
                   start_date |-> cfg.start_date,
                   end_date |-> resolve_end_date(cfg, now),
                   region |-> IF "region" \in DOMAIN cfg THEN cfg.region ELSE "",
                   base_url |-> base_url(k, IF "region" \in DOMAIN cfg THEN cfg.region ELSE "")]]

----------------------------------------------------------------------------
(* read_records on a stream object constructed from a usable config *)

Init ==
    /\ kind \in {"profiles", "events"}
    /\ initial_cursor = None
    /\ current_cursor = None
    /\ pc = "start"
    /\ attempt = 0
    /\ data = EmptyDict
    /\ idx = 0
    /\ emitted = <<>>
    /\ error = NoError
    /\ pages = <<>>
    /\ issued = None
    /\ nInit = 0
    /\ nPoll = 0
    /\ nWait = 0
    /\ lastCall = NoCall
    /\ lastResp = NoResp
    /\ config = TestConfig
    /\ today = 2
    /\ check_result = <<>>
    /\ stream = new_stream(kind, config, today).obj
    /\ stream_list = <<>>
    /\ reads = 0

\* Step 1 of read_records: fetch the initial cursor unless the object has one,
\* then enter the pagination loop
Initiate ==
    /\ pc = "start"
    /\ IF needs_initiation(initial_cursor)
       THEN \E resp \in InitResponses :
              LET r == get_initial_cursor(resp) IN
              /\ nInit' = nInit + 1
              /\ lastCall' = init_call(kind)
              /\ lastResp' = resp
              /\ IF r.raised
                 THEN /\ error' = r.error
                      /\ UNCHANGED <<initial_cursor, current_cursor, issued>>
                 ELSE /\ initial_cursor' = r.value
                      /\ current_cursor' = r.value
                      /\ issued' = r.value
                      /\ UNCHANGED error
              /\ pc' = after_init(r)
       ELSE /\ pc' = while_test(current_cursor)
            /\ UNCHANGED <<initial_cursor, current_cursor, issued, nInit, lastCall,
                         lastResp, error>>
    /\ UNCHANGED <<kind, attempt, data, idx, emitted, pages, nPoll, nWait>>
    /\ UNCHANGED checkVars

\* One pass of the retry loop: a poll call for the current cursor and the
\* interpretation of its response.  The remote API hands out at most MaxPages
\* pages: the last page it is asked for carries no continuation cursor.
Poll ==
    /\ pc = "poll"
    /\ \E resp \in PollResponses :
         LET outcome == poll_outcome(resp, attempt) IN
         /\ (outcome = "accept" /\ Len(pages) + 1 >= MaxPages)
                => ~Truthy(Get(resp.body, "next_cursor"))
         /\ nPoll' = nPoll + 1
         /\ lastCall' = poll_call(kind, current_cursor)
         /\ lastResp' = resp
         /\ pc' = after_poll(outcome)
         /\ error' = poll_error(resp, outcome)
         /\ data' = IF outcome = "raise_transport" THEN data ELSE resp.body
         /\ attempt' = IF outcome = "retry" THEN attempt + 1 ELSE attempt
         /\ nWait' = IF outcome = "retry" THEN nWait + 1 ELSE nWait
         /\ idx' = IF outcome = "accept" THEN 0 ELSE idx
         /\ pages' = IF outcome = "accept" THEN Append(pages, Records(resp.body)) ELSE pages
         /\ issued' = IF outcome = "accept" THEN Get(resp.body, "next_cursor") ELSE issued
         /\ current_cursor' = cursor_after_poll(outcome, current_cursor)
    /\ UNCHANGED <<kind, initial_cursor, emitted, nInit>>
    /\ UNCHANGED checkVars

\* `yield record`: the caller receives the next record of the accepted page
Yield ==
    /\ pc = "emit"
    /\ idx < Len(Records(data))
    /\ emitted' = yield_record(emitted, kind, Records(data)[idx + 1])
    /\ idx' = idx + 1
    /\ UNCHANGED <<kind, initial_cursor, current_cursor, pc, attempt, data, error,
                   pages, issued, nInit, nPoll, nWait, lastCall, lastResp>>
    /\ UNCHANGED checkVars

\* after the last record of the page: advance or clear the current cursor
Advance ==
    /\ pc = "emit"
    /\ records_exhausted(idx, data)
    /\ current_cursor' = advance(data).cursor
    /\ pc' = advance(data).pc
    /\ nPoll' = IF advance(data).pc = "poll" THEN 0 ELSE nPoll
    /\ nWait' = IF advance(data).pc = "poll" THEN 0 ELSE nWait
    /\ attempt' = first_attempt(attempt)
    /\ UNCHANGED <<kind, initial_cursor, data, idx, emitted, error, pages, issued,
                   nInit, lastCall, lastResp>>
    /\ UNCHANGED checkVars

Next == Initiate \/ Poll \/ Yield \/ Advance

Spec == Init /\ [][Next]_vars

\* read_records is invoked again on the same object, after the generator of
\* the invocation before has ended or has been left at a yield.  The object
\* keeps _initial_cursor and _current_cursor; the locals of the method are
\* new, and so are the records, pages and calls of the invocation; nInit goes
\* on over the object's life, and lastResp stays the last response the remote
\* API gave until the new invocation receives one.
Reinvoke ==
    /\ \/ pc \in {"done", "failed"}
       \/ pc = "emit" /\ idx >= 1
    /\ reads < MaxReads
    /\ reads' = reads + 1
    /\ pc' = "start"
    /\ error' = NoError
    /\ attempt' = 0
    /\ data' = EmptyDict
    /\ idx' = 0
    /\ nPoll' = 0
    /\ nWait' = 0
    /\ emitted' = <<>>
    /\ pages' = <<>>
    /\ lastCall' = NoCall
    /\ UNCHANGED <<kind, initial_cursor, current_cursor, issued, nInit, lastResp, config,
                   today, check_result, stream, stream_list>>

NextReinvoke == Next \/ Reinvoke

SpecReinvoke == Init /\ [][NextReinvoke]_vars

\* read_records runs its statements one after the other and the caller takes
\* every record the generator offers: a step that can be taken is taken
SpecLive == Init /\ [][Next]_vars /\ WF_vars(Next)

----------------------------------------------------------------------------
(* The record loop on one accepted page, for every shape of raw record *)

ProfileFields ==
    {"identity", "name", "email", "phone", "objectId", "all_identities", "profileData"}

FullProfile ==
    [identity |-> "u1", name |-> "n1", email |-> "e@x.com", phone |-> "p1",
     objectId |-> "o1", all_identities |-> "ids1", profileData |-> "pd1"]

\* a profile object with any of its fields, one with a null field, or null
ProfileValues ==
    {[f \in fs |-> FullProfile[f]] : fs \in SUBSET ProfileFields}
    \cup {[identity |-> None, email |-> "e@x.com"], NullObj}

EventPropsValues ==
    {("CT Session Id" :> "s1"), [other |-> "x"],
     ("CT Session Id" :> "s1") @@ [other |-> "x"], EmptyDict, NullObj}

\* raw records: profile and event_props absent or of any of these values,
\* possibly with a top-level key the flattening writes
FlattenInputs ==
    {[id |-> "a"] @@ pr @@ ep @@ top :
        pr \in {EmptyDict} \cup {[profile |-> x] : x \in ProfileValues},
        ep \in {EmptyDict} \cup {[event_props |-> x] : x \in EventPropsValues},
        top \in {EmptyDict, [identity |-> "stale"], [session_id |-> "stale"]}}

\* a read that has just accepted a page of one record without continuation
InitFlatten ==
    /\ kind \in {"profiles", "events"}
    /\ \E raw \in FlattenInputs :
         /\ data = [status |-> "success", records |-> <<raw>>]
         /\ pages = << <<raw>> >>
    /\ initial_cursor = "c1"
    /\ current_cursor = "c1"
    /\ pc = "emit"
    /\ attempt = 0
    /\ idx = 0
    /\ emitted = <<>>
    /\ error = NoError
    /\ issued = None
    /\ nInit = 1
    /\ nPoll = 1
    /\ nWait = 0
    /\ lastCall = poll_call(kind, "c1")
    /\ lastResp = [transport |-> "ok", body |-> data]
    /\ config = TestConfig
    /\ today = 2
    /\ check_result = <<>>
    /\ stream = new_stream(kind, config, today).obj
    /\ stream_list = <<>>
    /\ reads = 0

NextFlatten == Yield \/ Advance

SpecFlatten == InitFlatten /\ [][NextFlatten]_vars

----------------------------------------------------------------------------
(* check_connection *)

\* the first required field the config lacks ("None" if it has them all)
first_missing(cfg) ==
    IF "account_id" \notin DOMAIN cfg THEN "account_id"
    ELSE IF "passcode" \notin DOMAIN cfg THEN "passcode"
    ELSE IF "start_date" \notin DOMAIN cfg THEN "start_date"
    ELSE None

\* f"Missing required config field: {field}"
missing_message(field) ==
    CASE field = "account_id" -> "Missing required config field: account_id"
      [] field = "passcode" -> "Missing required config field: passcode"
      [] OTHER -> "Missing required config field: start_date"

\* f"Connection check failed: {str(e)}"
failed_message(e) ==
    CASE e.kind = "transport" -> "Connection check failed: transport error"
      [] e.kind = "api_error_status" -> "Connection check failed: API returned error status"
      [] e.kind = "no_cursor" -> "Connection check failed: No cursor returned from API"
      [] OTHER -> "Connection check failed: KeyError"

\* the body of the try block: what it returns or raises, and whether the
\* initiation call was issued
check_try(cfg, now, resp) ==
    IF first_missing(cfg) # None
    THEN [raised |-> FALSE, called |-> FALSE,
          value |-> <<FALSE, missing_message(first_missing(cfg))>>]
    ELSE IF ~IsInt(cfg.start_date)
    THEN [raised |-> FALSE, called |-> FALSE,
          value |-> <<FALSE, "start_date must be an integer in YYYYMMDD format">>]
    ELSE IF IsInt(resolve_end_date(cfg, now)) /\ cfg.start_date.v > resolve_end_date(cfg, now).v
    THEN [raised |-> FALSE, called |-> FALSE,
          value |-> <<FALSE, "start_date must be less than or equal to end_date">>]
    ELSE IF new_stream("events", cfg, now).raised
    THEN [raised |-> TRUE, called |-> FALSE, error |-> new_stream("events", cfg, now).error]
    ELSE LET r == get_initial_cursor(resp) IN
         IF r.raised
         THEN [raised |-> TRUE, called |-> TRUE, error |-> r.error]
         ELSE IF ~Truthy(r.value)
         THEN [raised |-> FALSE, called |-> TRUE,
               value |-> <<FALSE, "Failed to get cursor from CleverTap API">>]
         ELSE [raised |-> FALSE, called |-> TRUE, value |-> <<TRUE, None>>]

\* variant: the handler catches the API's failures, not those of the transport
except_catches_api_only(e) == e.kind # "transport"

\* `except Exception as e`: the exceptions the handler turns into a result
except_catches(e) == TRUE

\* check_connection: the returned pair, or the exception that leaves it
check_connection(cfg, now, resp) ==
    LET t == check_try(cfg, now, resp) IN
    IF t.raised /\ except_catches(t.error)
    THEN [raised |-> FALSE, called |-> t.called, error |-> NoError,
          value |-> <<FALSE, failed_message(t.error)>>]
    ELSE IF t.raised
    THEN [raised |-> TRUE, called |-> t.called, error |-> t.error, value |-> <<>>]
    ELSE [raised |-> FALSE, called |-> t.called, error |-> NoError, value |-> t.value]

InitCheck ==
    /\ kind = "None"
    /\ initial_cursor = None
    /\ current_cursor = None
    /\ pc = "new"
    /\ attempt = 0
    /\ data = EmptyDict
    /\ idx = 0
    /\ emitted = <<>>
    /\ error = NoError
    /\ pages = <<>>
    /\ issued = None
    /\ nInit = 0
    /\ nPoll = 0
    /\ nWait = 0
    /\ lastCall = NoCall
    /\ lastResp = NoResp
    /\ config \in Configs
    /\ today \in Dates
    /\ check_result = <<>>
    /\ stream = NoStream
    /\ stream_list = <<>>
    /\ reads = 0

\* the harness runs the connection check on the config
CheckConnection ==
    /\ pc = "new"
    /\ check_result = <<>>
    /\ error = NoError
    /\ \E resp \in InitResponses :
         LET c == check_connection(config, today, resp) IN
         /\ check_result' = c.value
         /\ error' = c.error
         /\ nInit' = IF c.called THEN nInit + 1 ELSE nInit
         /\ lastCall' = IF c.called THEN init_call("events") ELSE lastCall
         /\ lastResp' = IF c.called THEN resp ELSE lastResp
    /\ UNCHANGED <<kind, initial_cursor, current_cursor, pc, attempt, data, idx,
                   emitted, pages, issued, nPoll, nWait, config, today, stream,
                   stream_list, reads>>

\* streams(config): the stream objects the source hands to the harness
source_streams(cfg, now) == <<new_stream("events", cfg, now)>>

\* the harness asks the source for its streams and takes one to read
Streams ==
    /\ pc = "new"
    /\ check_result = <<>>
    /\ error = NoError
    /\ LET s == source_streams(config, today) IN
         IF \E i \in 1..Len(s) : s[i].raised
         THEN /\ error' = s[CHOOSE i \in 1..Len(s) :
                                s[i].raised /\ \A j \in 1..(i - 1) : ~s[j].raised].error
              /\ pc' = "failed"
              /\ UNCHANGED <<kind, stream, stream_list>>
         ELSE /\ stream_list' = [i \in 1..Len(s) |-> s[i].obj.kind]
              /\ \E i \in 1..Len(s) : (stream' = s[i].obj /\ kind' = s[i].obj.kind)
              /\ pc' = "start"
              /\ UNCHANGED error
    /\ UNCHANGED <<initial_cursor, current_cursor, attempt, data, idx, emitted, pages,
                   issued, nInit, nPoll, nWait, lastCall, lastResp, config, today,
                   check_result, reads>>

\* a stream class is constructed on the config directly, as the unit tests do
Construct ==
    /\ pc = "new"
    /\ check_result = <<>>
    /\ error = NoError
    /\ \E k \in {"profiles", "events"} :
         LET r == new_stream(k, config, today) IN
         IF r.raised
         THEN /\ error' = r.error
              /\ pc' = "failed"
              /\ UNCHANGED <<kind, stream>>
         ELSE /\ stream' = r.obj
              /\ kind' = k
              /\ pc' = "start"
              /\ UNCHANGED error
    /\ UNCHANGED <<initial_cursor, current_cursor, attempt, data, idx, emitted, pages,
                   issued, nInit, nPoll, nWait, lastCall, lastResp, config, today,
                   check_result, stream_list, reads>>

\* the connection check, or the construction of a stream and the first step
\* of its read
NextCheck == CheckConnection \/ Streams \/ Construct \/ Initiate

SpecCheck == InitCheck /\ [][NextCheck]_vars

----------------------------------------------------------------------------
(* Helpers of the properties *)

RECURSIVE Concat(_)
\* the concatenation of a sequence of record lists
Concat(pp) == IF pp = <<>> THEN <<>> ELSE Concat(SubSeq(pp, 1, Len(pp) - 1)) \o pp[Len(pp)]

\* the ids of a sequence of records
Ids(recs) == [i \in 1..Len(recs) |-> recs[i].id]

\* the records of the pages accepted before the latest one
EarlierRecords == IF pages = <<>> THEN <<>> ELSE Concat(SubSeq(pages, 1, Len(pages) - 1))

\* the body is the processing signal {status: "fail", code: 2}
ProcessingSignal(b) ==
    /\ "status" \in DOMAIN b /\ b.status = "fail"
    /\ "code" \in DOMAIN b /\ b.code = 2

\* the body reports success
SuccessStatus(b) == "status" \in DOMAIN b /\ b.status = "success"

\* the body carries a continuation cursor
HasContinuation(b) == "next_cursor" \in DOMAIN b /\ b.next_cursor \notin {"", None}

\* the initiation body carries a cursor
HasCursor(b) == "cursor" \in DOMAIN b /\ b.cursor \notin {"", None}

----------------------------------------------------------------------------
(* C1: when the first cursor's poll answers N processing signals and then a  *)
(* success page without continuation cursor, the read ends normally with    *)
(* exactly that page's records only if N < 10, every one of the N signals   *)
(* was waited out and polled again, and the 10th processing signal fails    *)
(* the read with the retry-exhausted error, no record emitted.              *)
C1_RetryBudgetOutcome ==
    /\ (pc = "done" /\ Len(pages) = 1)
          => /\ nWait < 10
             /\ nPoll = nWait + 1
             /\ error = NoError
             /\ Ids(emitted) = Ids(pages[1])
    /\ (error.kind = "max_retries" /\ Len(pages) = 0)
          => /\ nPoll = 10
             /\ nWait = 9
             /\ pc = "failed"
             /\ emitted = <<>>
    /\ (pc = "poll" /\ Len(pages) = 0) => (nPoll = nWait /\ nWait < 10)

\* nine processing signals, then the page: the read ended normally with its records
C1_Witness ==
    /\ pc = "done"
    /\ Len(pages) = 1
    /\ nWait = 9
    /\ Ids(emitted) = <<"a", "b">>

(* C2: the records one read emits are the concatenation of the accepted     *)
(* pages' record lists, in page order and in the order within each page,    *)
(* nothing lost, duplicated or reordered; the read ends after the first     *)
(* page without continuation cursor.                                        *)
C2_EmittedIsConcatenation ==
    /\ pc \in {"emit", "done"}
          => /\ idx <= Len(pages[Len(pages)])
             /\ Ids(emitted) = Ids(EarlierRecords \o SubSeq(pages[Len(pages)], 1, idx))
    /\ pc \in {"poll", "failed", "done"} => Ids(emitted) = Ids(Concat(pages))
    /\ (kind = "profiles" /\ pc = "done") => emitted = Concat(pages)
    /\ pc = "done" => (pages # <<>> /\ ~HasContinuation(data))
    /\ (pc = "poll" /\ pages # <<>>) => HasContinuation(data) \/ ProcessingSignal(data)

\* P1 = [a, b] with a continuation cursor, P2 = [c] without: [a, b, c] emitted
C2_Witness ==
    /\ pc = "done"
    /\ pages = << <<RecA, RecB>>, <<RecC>> >>
    /\ Ids(emitted) = <<"a", "b", "c">>

(* C3: every poll call carries the current cursor, which is the cursor the  *)
(* remote API handed out last (by the initiation call, then by the latest   *)
(* accepted page); a retry leaves the cursor unchanged; the cursor becomes  *)
(* absent only when an accepted page carries no continuation cursor.        *)
C3_PollCarriesCurrentCursor ==
    [][ /\ pc = "poll"
            => /\ lastCall'.call = "poll"
               /\ lastCall'.cursor = current_cursor
               /\ lastCall'.cursor = issued
               /\ current_cursor' = current_cursor
        /\ (pc = "emit" /\ pc' = "poll") => current_cursor' = issued
        /\ (current_cursor # None /\ current_cursor' = None)
            => (pc = "emit" /\ idx = Len(Records(data)) /\ ~HasContinuation(data))
        /\ (pc = "emit" /\ idx = Len(Records(data)) /\ ~HasContinuation(data))
            => current_cursor' = None
      ]_vars

\* a retried poll of the second page's cursor
C3_Witness ==
    /\ pc = "poll"
    /\ lastCall = poll_call(kind, "c2")
    /\ initial_cursor = "c1"
    /\ Len(pages) = 1
    /\ nWait = 2

(* C4: once a read has reached DONE (cursor cleared) or has failed, no      *)
(* further initiation or poll call is issued and no further record emitted. *)
C4_TerminalStatesAreTerminal ==
    [][ (error # NoError \/ (initial_cursor # None /\ current_cursor = None))
            => /\ nInit' = nInit
               /\ nPoll' = nPoll
               /\ lastCall' = lastCall
               /\ emitted' = emitted
               /\ pc' = pc
      ]_vars

\* a read that failed on the second page after the first was emitted
C4_Witness ==
    /\ error.kind = "api_error_status"
    /\ Len(pages) = 1
    /\ emitted # <<>>

(* C5 as stated: a read that ended in an error has delivered no record of   *)
(* an earlier page to the caller.                                           *)
C5_NoRecordDeliveredOnError ==
    error # NoError => emitted = <<>>

(* C5, amended: every error aborts the read and is surfaced to the caller;  *)
(* the caller then holds every record of the pages accepted before the      *)
(* failing call, in order, and nothing else.                                *)
C5_ErrorAbortsAfterDelivery ==
    /\ error # NoError
          => /\ pc = "failed"
             /\ lastCall.call \in {"init", "poll"}
             /\ Ids(emitted) = Ids(Concat(pages))
    /\ pc = "failed" => error # NoError
    /\ (pc = "failed" /\ lastCall.call = "poll" /\ lastResp.transport # "ok")
          => error = TransportError(lastResp.transport)

\* a transport failure on the second page, the first page's records delivered
C5_Witness ==
    /\ error.kind = "transport"
    /\ Len(pages) = 1
    /\ Ids(emitted) = <<"a", "b">>

(* C6: of the poll responses only the processing signal is retried; a       *)
(* non-success transport status, or a body that is neither the processing   *)
(* signal nor a success, fails the read at once, without a wait, whatever   *)
(* the attempts left; the checks are made in the order transport status,    *)
(* processing signal, other failure, success.                               *)
C6_OnlyProcessingSignalIsRetried ==
    [][ pc = "poll"
          => LET r == lastResp' IN
             /\ r.transport # "ok"
                  => (pc' = "failed" /\ error'.kind = "transport" /\ nWait' = nWait)
             /\ (r.transport = "ok" /\ ProcessingSignal(r.body))
                  => \/ (attempt < 9 /\ pc' = "poll" /\ nWait' = nWait + 1
                           /\ attempt' = attempt + 1 /\ error' = NoError)
                     \/ (attempt = 9 /\ pc' = "failed" /\ nWait' = nWait
                           /\ error' = MaxRetriesError(r.body))
             /\ (r.transport = "ok" /\ ~ProcessingSignal(r.body) /\ ~SuccessStatus(r.body))
                  => (pc' = "failed" /\ error' = ApiError(r.body) /\ nWait' = nWait)
             /\ (r.transport = "ok" /\ SuccessStatus(r.body))
                  => (pc' = "emit" /\ error' = NoError /\ nWait' = nWait)
      ]_vars

\* a body {status: "fail", code: 1} on the fourth attempt failed the read
C6_Witness ==
    /\ pc = "failed"
    /\ attempt = 3
    /\ nWait = 3
    /\ lastResp.body = [status |-> "fail", code |-> 1]
    /\ error.kind = "api_error_status"

(* C7: an initiation response that reports success without a cursor (or     *)
(* with an empty one) fails the read with an error, no poll call issued and *)
(* no record emitted; one whose status is not "success" fails it with an    *)
(* error that carries the raw body, likewise without a poll call.           *)
C7_InitiationWithoutCursorFails ==
    lastCall.call = "init" /\ lastResp.transport = "ok"
      => /\ (SuccessStatus(lastResp.body) /\ ~HasCursor(lastResp.body))
              => /\ pc = "failed"
                 /\ error = NoCursorError(lastResp.body)
                 /\ nPoll = 0
                 /\ emitted = <<>>
         /\ ~SuccessStatus(lastResp.body)
              => /\ pc = "failed"
                 /\ error = ApiError(lastResp.body)
                 /\ nPoll = 0
                 /\ emitted = <<>>

\* the initiation response {status: "success"} failed the read
C7_Witness ==
    /\ lastCall.call = "init"
    /\ lastResp = [transport |-> "ok", body |-> [status |-> "success"]]
    /\ error.kind = "no_cursor"

(* C8: one read session issues the initiation call exactly once, before     *)
(* any poll call, and never again: a transport failure of the initiation    *)
(* call ends the read with an error, no second initiation call and no poll  *)
(* call issued.                                                             *)
C8_InitiationExactlyOnce ==
    /\ nInit <= 1
    /\ pc # "start" => nInit = 1
    /\ (nPoll > 0 \/ lastCall.call = "poll") => nInit = 1
    /\ nInit = 0 => lastCall = NoCall
    /\ (lastCall.call = "init" /\ lastResp.transport # "ok")
          => /\ pc = "failed"
             /\ error = TransportError(lastResp.transport)
             /\ nInit = 1
             /\ nPoll = 0

\* the initiation call failed in transport and the read ended
C8_Witness ==
    /\ lastCall.call = "init"
    /\ lastResp.transport = "network_error"
    /\ pc = "failed"
    /\ nInit = 1

(* C9: an accepted page without records emits no record; the pagination     *)
(* goes on with its continuation cursor when it has one, and ends only      *)
(* when it has none.                                                        *)
C9_EmptyPageContinues ==
    [][ /\ (pc = "poll" /\ pc' = "emit" /\ Records(data') = <<>>) => emitted' = emitted
        /\ (pc = "emit" /\ Records(data) = <<>>)
             => /\ emitted' = emitted
                /\ HasContinuation(data)
                     => (pc' = "poll" /\ current_cursor' = data.next_cursor)
                /\ ~HasContinuation(data) => (pc' = "done" /\ current_cursor' = None)
      ]_vars

\* the poll after an empty first page that carried the continuation cursor c2
C9_Witness ==
    /\ pages = << <<>> >>
    /\ lastCall = poll_call(kind, "c2")
    /\ emitted = <<>>
    /\ nPoll = 1

----------------------------------------------------------------------------
(* Properties of check_connection, under SpecCheck *)

\* the end date the date window uses: the config's, or the current date
WindowEnd(cfg, now) ==
    IF "end_date" \in DOMAIN cfg /\ cfg.end_date \notin {NullV, IntV(0)}
    THEN cfg.end_date
    ELSE IntV(now)

\* the config passes validation: the required keys are there, start_date is
\* an integer, and it is not after an integer end date
PassesValidation(cfg, now) ==
    /\ {"account_id", "passcode", "start_date"} \subseteq DOMAIN cfg
    /\ cfg.start_date.t = "int"
    /\ WindowEnd(cfg, now).t = "int" => cfg.start_date.v <= WindowEnd(cfg, now).v

\* the initiation call was issued and its response carries a cursor
InitiationReturnedCursor ==
    /\ lastCall.call = "init"
    /\ lastResp.transport = "ok"
    /\ SuccessStatus(lastResp.body)
    /\ HasCursor(lastResp.body)

StartAfterEnd(cfg, now) ==
    /\ "start_date" \in DOMAIN cfg
    /\ cfg.start_date.t = "int"
    /\ WindowEnd(cfg, now).t = "int"
    /\ cfg.start_date.v > WindowEnd(cfg, now).v

(* C11: for a config whose start_date is after its end_date (the current    *)
(* date when the config has none) no network call is ever made: neither     *)
(* the connection check nor a stream read issues an initiation or poll call. *)
C11_NoCallWhenStartAfterEnd ==
    StartAfterEnd(config, today) => (nInit = 0 /\ nPoll = 0 /\ lastCall = NoCall)

\* the config lacks one of the required keys
Required == {"account_id", "passcode", "start_date"}

\* the message names the field
NamesField(msg, f) ==
    <<f, msg>> \in {<<"account_id", "Missing required config field: account_id">>,
                    <<"passcode", "Missing required config field: passcode">>,
                    <<"start_date", "Missing required config field: start_date">>}

(* C12: for a config that lacks one of account_id, passcode, start_date the *)
(* configuration is refused with an error that names a field the config     *)
(* lacks, by the connection check and by the construction of a stream       *)
(* alike, and no network call is made.                                      *)
C12_MissingFieldIsNamed ==
    ~(Required \subseteq DOMAIN config)
      => /\ nInit = 0
         /\ nPoll = 0
         /\ lastCall = NoCall
         /\ check_result # <<>>
              => \E f \in Required \ DOMAIN config :
                     /\ check_result[1] = FALSE
                     /\ NamesField(check_result[2], f)
         /\ pc # "new"
              => /\ pc = "failed"
                 /\ error.kind = "KeyError"
                 /\ error.key \notin DOMAIN config

\* streams(config) on a config without passcode raised KeyError('passcode')
C12_Witness ==
    /\ pc = "failed"
    /\ error = KeyError("passcode")
    /\ "account_id" \in DOMAIN config
    /\ "start_date" \in DOMAIN config

----------------------------------------------------------------------------
(* Properties of the record loop, under SpecFlatten *)

\* the field of the raw record's nested profile object, null when there is none
ProfileField(raw, f) ==
    IF "profile" \in DOMAIN raw /\ raw.profile # NullObj /\ f \in DOMAIN raw.profile
    THEN raw.profile[f]
    ELSE None

\* the "CT Session Id" entry of the raw record's event_props, null when there is none
SessionOf(raw) ==
    IF /\ "event_props" \in DOMAIN raw
       /\ raw.event_props # NullObj
       /\ "CT Session Id" \in DOMAIN raw.event_props
    THEN raw.event_props["CT Session Id"]
    ELSE None

(* C13: an emitted events record has no profile key, its identity, name,    *)
(* email, phone, object_id, all_identities and profile_data are the fields  *)
(* of the raw record's profile object (null when absent) and its session_id *)
(* is the "CT Session Id" of event_props (null when absent); a profiles     *)
(* record is emitted as it came.                                            *)
C13_EventsRecordIsFlattened ==
    \A i \in 1..Len(emitted) :
        LET raw == pages[1][i]
            out == emitted[i]
        IN  /\ kind = "profiles" => out = raw
            /\ kind = "events"
                 => /\ "profile" \notin DOMAIN out
                    /\ {"session_id", "identity", "name", "email", "phone", "object_id",
                        "all_identities", "profile_data"} \subseteq DOMAIN out
                    /\ out.identity = ProfileField(raw, "identity")
                    /\ out.name = ProfileField(raw, "name")
                    /\ out.email = ProfileField(raw, "email")
                    /\ out.phone = ProfileField(raw, "phone")
                    /\ out.object_id = ProfileField(raw, "objectId")
                    /\ out.all_identities = ProfileField(raw, "all_identities")
                    /\ out.profile_data = ProfileField(raw, "profileData")
                    /\ out.session_id = SessionOf(raw)

\* profile {identity: "u1", email: "e@x.com"}, event_props {"CT Session Id": "s1"}
C13_Witness ==
    /\ kind = "events"
    /\ Len(emitted) = 1
    /\ "profile" \in DOMAIN pages[1][1]
    /\ pages[1][1].profile = [identity |-> "u1", email |-> "e@x.com"]
    /\ emitted[1].identity = "u1"
    /\ emitted[1].email = "e@x.com"
    /\ emitted[1].session_id = "s1"
    /\ emitted[1].name = None
    /\ "profile" \notin DOMAIN emitted[1]

----------------------------------------------------------------------------
(* Properties of the constructors and of streams(), under SpecCheck *)

\* the base address the documentation gives for the config's region
RegionBase(cfg) ==
    IF "region" \in DOMAIN cfg /\ cfg.region # ""
    THEN <<"https://", cfg.region, ".api.clevertap.com">>
    ELSE <<"https://api.clevertap.com">>

(* C14: a constructed stream of either kind has the base address            *)
(* https://{region}.api.clevertap.com for every non-empty region, one of    *)
(* the documented ones or not, and https://api.clevertap.com for an empty   *)
(* or absent region.                                                        *)
C14_RegionMappingIsTotal ==
    stream # NoStream
      => /\ stream.kind \in {"profiles", "events"}
         /\ stream.base_url = RegionBase(config)

\* a profiles stream with a region that is none of the documented ones
C14_Witness ==
    /\ stream # NoStream
    /\ stream.kind = "profiles"
    /\ "region" \in DOMAIN config
    /\ config.region = "xx9"
    /\ stream.base_url = <<"https://", "xx9", ".api.clevertap.com">>

(* C15: the list streams(config) returns holds exactly two streams, a       *)
(* profiles stream named "profiles" and then an events stream named         *)
(* "events".                                                                *)
C15_StreamsReturnsBothKinds ==
    stream_list # <<>> => stream_list = <<"profiles", "events">>

----------------------------------------------------------------------------
(* Properties of the outbound calls and of the loops, under Spec *)

\* the last call was a poll of the cursor's own retry loop, whose cursor is
\* still stored
PollOfStoredCursor ==
    /\ lastCall # NoCall
    /\ lastCall.call = "poll"
    /\ nPoll > 0
    /\ pc \in {"poll", "emit", "failed"}

C17_ReadTerminates ==
    /\ [](pc = "poll" => (Truthy(current_cursor) /\ nPoll < max_retries))
    /\ <>(pc \in {"done", "failed"})

\* a read that went through retries on two cursors and ended normally
C17_Witness ==
    /\ pc = "done"
    /\ Len(pages) = MaxPages
    /\ nWait > 0
    /\ current_cursor = None

(* C18: the retry budget is per cursor.  For each cursor at most            *)
(* max_retries polls and max_retries - 1 waits are made, every poll but the *)
(* last of a cursor is followed by a wait and the last one is not, and the  *)
(* attempt counter of a cursor counts the polls of that cursor only, so the *)
(* budget is exhausted after exactly max_retries polls of it whatever the   *)
(* pages before went through.                                               *)
C18_RetryBudgetIsPerCursor ==
    /\ nPoll <= max_retries
    /\ nWait <= max_retries - 1
    /\ pc = "poll" => (attempt = nPoll /\ nWait = nPoll)
    /\ (pc \in {"emit", "failed", "done"} /\ nPoll > 0) => nPoll = nWait + 1
    /\ error.kind = "max_retries" => (nPoll = max_retries /\ nWait = max_retries - 1)

\* the budget of the second cursor is exhausted after ten polls of it
C18_Witness ==
    /\ pc = "failed"
    /\ error.kind = "max_retries"
    /\ Len(pages) = 1
    /\ lastCall # NoCall
    /\ lastCall.cursor = current_cursor
    /\ current_cursor # initial_cursor
    /\ nPoll = max_retries
    /\ nWait = max_retries - 1

(* C19: the stored current cursor is advanced or cleared only after every   *)
(* record of the accepted page has been emitted: while the page is being    *)
(* emitted, and at every point at which the caller has received only some   *)
(* of its records, the stored cursor is the one the page was fetched with.  *)
C19_CursorKeptWhilePageIsEmitted ==
    /\ pc = "emit"
         => /\ lastCall = poll_call(kind, current_cursor)
            /\ Truthy(current_cursor)
    /\ (0 < idx /\ idx < Len(Records(data)))
         => /\ pc = "emit"
            /\ lastCall # NoCall
            /\ lastCall.cursor = current_cursor

\* one of two records received, the page carries another cursor
C19_Witness ==
    /\ pc = "emit"
    /\ idx = 1
    /\ Len(Records(data)) = 2
    /\ Len(emitted) = 1
    /\ Truthy(Get(data, "next_cursor"))
    /\ Get(data, "next_cursor") # current_cursor
    /\ lastCall = poll_call(kind, current_cursor)

----------------------------------------------------------------------------
(* Properties of several read_records invocations on one object, under      *)
(* SpecReinvoke                                                             *)

\* a read of the object has completed normally
Completed == Truthy(initial_cursor) /\ current_cursor = None

(* C20: over any sequence of read_records invocations on one stream object  *)
(* at most one initiation call succeeds: once a cursor is stored no step    *)
(* issues an initiation call or replaces the stored initial cursor; and     *)
(* once a read has completed normally no step issues a call or emits a      *)
(* record: a further invocation goes from its start to its end at once.     *)
C20_OneInitiationPerObject ==
    [][/\ Truthy(initial_cursor)
          => (nInit' = nInit /\ initial_cursor' = initial_cursor)
       /\ Completed
          => /\ Completed'
             /\ lastCall' = lastCall \/ lastCall' = NoCall
             /\ nInit' = nInit
             /\ nPoll' = nPoll \/ nPoll' = 0
             /\ emitted' = emitted \/ emitted' = <<>>
             /\ pc' \in {"start", "done"}]_vars

\* a second invocation after a completed read has run to its end
C20_Witness ==
    /\ reads = 1
    /\ pc = "done"
    /\ Completed
    /\ nInit = 1
    /\ nPoll = 0
    /\ lastCall = NoCall
    /\ emitted = <<>>

\* the read has failed on a poll: an exception of the retry loop, raised after
\* a poll call of the stored cursor
PollFailed ==
    /\ pc = "failed"
    /\ nPoll > 0
    /\ error.kind \in {"transport", "api_error_status", "max_retries"}

(* C21: a failure during polling leaves the stored cursor unchanged.  The   *)
(* step on which a poll fails keeps _current_cursor and _initial_cursor;    *)
(* the invocation that follows issues no initiation call, enters the loop   *)
(* with the cursor that was current at the failure and polls it first, and  *)
(* its retry budget is fresh: the attempt count starts at zero and retry    *)
(* exhaustion takes max_retries polls of the new invocation.                *)
C21_PollFailureKeepsCursor ==
    [][/\ (pc = "poll" /\ pc' = "failed")
          => /\ PollFailed'
             /\ Truthy(current_cursor')
             /\ current_cursor' = current_cursor
             /\ initial_cursor' = initial_cursor
             /\ lastCall' = poll_call(kind, current_cursor')
       /\ PollFailed
          => /\ pc' = "start"
             /\ reads' = reads + 1
             /\ current_cursor' = current_cursor
             /\ initial_cursor' = initial_cursor
             /\ nInit' = nInit
             /\ attempt' = 0 /\ nPoll' = 0 /\ nWait' = 0
       /\ (pc = "start" /\ reads > 0 /\ Truthy(current_cursor))
          => /\ pc' = "poll"
             /\ nInit' = nInit
             /\ lastCall' = NoCall
             /\ current_cursor' = current_cursor
             /\ attempt' = 0 /\ nPoll' = 0 /\ nWait' = 0
       /\ (pc = "poll" /\ nPoll = 0)
          => /\ attempt = 0
             /\ nPoll' = 1
             /\ lastCall' = poll_call(kind, current_cursor)
       /\ error'.kind = "max_retries"
          => (nPoll' = max_retries /\ nWait' = max_retries - 1)]_vars

\* after a transport failure of a poll, the next invocation has entered the
\* loop with the stored cursor and has issued no call
C21_Witness ==
    /\ reads = 1
    /\ pc = "poll"
    /\ nInit = 1
    /\ nPoll = 0
    /\ attempt = 0
    /\ lastCall = NoCall
    /\ lastResp.transport = "network_error"
    /\ Truthy(current_cursor)
    /\ current_cursor # initial_cursor

====
